---------------------------- MODULE Spec2Model ----------------------------
(***************************************************************************)
(* Model of lib/index.js of swagger-mongoose: the compiler that turns the  *)
(* `definitions` of a Swagger document into mongoose schema definitions.   *)
(*                                                                         *)
(* JSON objects are TLA+ functions from key strings to values; an absent   *)
(* key is JavaScript's undefined.  Objects iterate in the order of         *)
(* KeyOrder.  A JSON pointer string is the record [prefix, name] of the    *)
(* text before and after its last "/".  An exception is the err field of   *)
(* a result record (err = "" when the call returned).                      *)
(***************************************************************************)
EXTENDS Integers, Sequences, FiniteSets, TLC

VARIABLES
    definitions,        \* let definitions            (index.js:19)
    swaggerVersion,     \* let swaggerVersion         (index.js:20)
    xSwaggerMongoose,   \* const xSwaggerMongoose     (index.js:23-28)
    validators,         \* let validators             (index.js:29)
    calls,              \* number of API calls made by the process so far
    lastCall,           \* the last call and its arguments
    outcome,            \* what the last call returned or raised
    cbLog               \* invocations of compileAsync's callback in the last call

vars == <<definitions, swaggerVersion, xSwaggerMongoose, validators,
          calls, lastCall, outcome, cbLog>>

(***************************************************************************)
(* Bounds of the model.                                                    *)
(***************************************************************************)
\* Calls to the API one process makes.
MaxCalls == 2
\* Frames of the JavaScript call stack; a deeper recursion raises RangeError.
MaxDepth == 12
\* Nesting of array descriptors handed to propertyMap.
MaxNest == 2
\* Fragments of an allOf handed to processPolymorphic.
MaxFrags == 2

(***************************************************************************)
(* JSON objects.                                                           *)
(***************************************************************************)
EmptyObj == [k \in {} |-> TRUE]
Has(o, k) == k \in DOMAIN o
Del(o, k) == [x \in (DOMAIN o) \ {k} |-> o[x]]
Put(o, k, v) == [x \in (DOMAIN o) \cup {k} |-> IF x = k THEN v ELSE o[x]]
\* _.extend({}, a, b) / Object.assign: the keys of b win.
Extend(a, b) == [x \in (DOMAIN a) \cup (DOMAIN b) |-> IF x \in DOMAIN b THEN b[x] ELSE a[x]]
\* A JavaScript array literal [x].
Arr(x) == [arrayOf |-> x]
\* A storage type constructor (Number, String, Boolean, Date, Schema.Types.ObjectId).
Ctor(n) == [ctor |-> n]
\* A type facet left as the string of the input.
Raw(s) == [raw |-> s]

Ok(v) == [err |-> "", val |-> v]
Throw(e) == [err |-> e, val |-> EmptyObj]

\* The iteration order of object keys (insertion order of the documents used).
KeyOrder == <<"x-swagger-mongoose", "_mongoose", "default",
              "Animal", "House", "Person", "Pet", "Ghost",
              "_id", "__v", "name", "tag", "lng", "description", "login",
              "home", "houses", "annex", "annexes", "parent", "owner",
              "friends", "email", "extra", "kind">>
RECURSIVE KeysFrom(_, _)
KeysFrom(o, i) ==
    IF i > Len(KeyOrder) THEN <<>>
    ELSE IF KeyOrder[i] \in DOMAIN o THEN <<KeyOrder[i]>> \o KeysFrom(o, i + 1)
    ELSE KeysFrom(o, i + 1)
Keys(o) == KeysFrom(o, 1)

(***************************************************************************)
(* propertyMap (index.js:31-61).                                           *)
(***************************************************************************)
\* return [propertyMap(property.items)]
arrayOfType(r) == IF r.err # "" THEN r ELSE Ok(Arr(r.val))

RECURSIVE propertyMapNoFormatCheck(_)
propertyMapNoFormatCheck(property) ==
    LET type == IF Has(property, "type") THEN property.type ELSE "" IN
    CASE type \in {"number", "integer", "long", "float", "double"} -> Ok(Ctor("Number"))
      [] type \in {"string", "password"} -> Ok(Ctor("String"))
      [] type = "boolean" -> Ok(Ctor("Boolean"))
      [] type \in {"date", "dateTime"} -> Ok(Ctor("Date"))
      [] type = "array" ->
            IF ~Has(property, "items") THEN Throw("TypeError")
            ELSE arrayOfType(propertyMapNoFormatCheck(property.items))
      [] OTHER -> Throw("Unrecognized schema type")

RECURSIVE propertyMap(_)
propertyMap(property) ==
    LET type == IF Has(property, "type") THEN property.type ELSE ""
        format == IF Has(property, "format") THEN property.format ELSE ""
    IN
    CASE type = "number" ->
            IF format \in {"integer", "long", "float", "double"}
            THEN Ok(Ctor("Number"))
            ELSE Throw("Unrecognised schema format")
      [] type \in {"integer", "long", "float", "double"} -> Ok(Ctor("Number"))
      [] type \in {"string", "password"} -> Ok(Ctor("String"))
      [] type = "boolean" -> Ok(Ctor("Boolean"))
      [] type \in {"date", "dateTime"} -> Ok(Ctor("Date"))
      [] type = "array" ->
            \* property.items undefined: reading .type of undefined
            IF ~Has(property, "items") THEN Throw("TypeError")
            ELSE arrayOfType(propertyMap(property.items))
      [] OTHER -> Throw("Unrecognized schema type")


(***************************************************************************)
(* Small predicates and helpers (index.js:83-143, 190-192, 224-226).       *)
(***************************************************************************)
Undefined == [undefined |-> TRUE]
Null == [null |-> TRUE]
\* The objectName argument when the caller passes none.
UndefinedName == "<undefined>"

allowedTypes == {"number", "integer", "long", "float", "double", "string",
                 "password", "boolean", "date", "dateTime", "array"}

isAllowedType(type) == type \in allowedTypes

isSimpleSchema(schema) == Has(schema, "type") /\ schema.type # "" /\ isAllowedType(schema.type)

\* Strings made of \w characters only, among the strings the documents use.
isWord(s) == s \notin {"x-swagger-mongoose", "<undefined>"}

\* refString.match(/^#\/definitions\/(\w*)$/): null unless the pointer is
\* "#/definitions/" followed by a word.
refRegExpMatches(ptr) == ptr.prefix = "#/definitions/" /\ isWord(ptr.name)

\* ref.replace('#/definitions/', ''): the pointer with that text removed.
replaceDefinitionsPrefix(ptr) ==
    IF ptr.prefix = "#/definitions/" THEN [prefix |-> "", name |-> ptr.name] ELSE ptr

\* property.type === 'array' && property.items.$ref throws when items is missing.
isPropertyHasRefThrows(property) ==
    ~Has(property, "$ref") /\ Has(property, "type") /\ property.type = "array"
        /\ ~Has(property, "items")

isPropertyHasRef(property) ==
    \/ Has(property, "$ref")
    \/ /\ Has(property, "type") /\ property.type = "array"
       /\ Has(property, "items") /\ Has(property.items, "$ref")

\* template is [arr |-> list], [bool |-> b] or Undefined.  object[key].required
\* = value raises when object[key] is undefined.
fillRequiredValue(object, key, value) ==
    IF Has(object, key) /\ object[key] # Undefined
    THEN Ok(Put(object, key, Put(object[key], "required", value)))
    ELSE Throw("TypeError")

fillRequired(object, key, template) ==
    IF Has(template, "arr") /\ (\E i \in 1..Len(template.arr) : template.arr[i] = key)
    THEN fillRequiredValue(object, key, TRUE)
    ELSE IF Has(template, "bool")
    THEN fillRequiredValue(object, key, template.bool)
    ELSE Ok(object)

\* swaggerVersion is kept in tenths; 0 is null (null >= 2 is false).
isAtLeastSwagger2(version) == version >= 20

v2MongooseProperty == "x-swagger-mongoose"
v1MongooseProperty == "_mongoose"

getMongooseProperty(version) ==
    IF isAtLeastSwagger2(version) THEN v2MongooseProperty ELSE v1MongooseProperty

isMongooseProperty(property, version) == Has(property, getMongooseProperty(version))

isMongooseArray(property, version) ==
    Has(property, "items") /\ Has(property.items, getMongooseProperty(version))

isMongodbReservedOnlyId(fieldKey) == fieldKey = "_id"

isMongodbReserved(fieldKey) == fieldKey = "_id" \/ fieldKey = "__v"

isPolymorphic(def) == Has(def, "allOf")

\* The type facet of a descriptor copied from the input stays the input's string.
RawType(ret) == IF Has(ret, "type") THEN Put(ret, "type", Raw(ret.type)) ELSE ret

ObjectIdRef(name) == [type |-> Ctor("ObjectId"), ref |-> name]

(***************************************************************************)
(* getMongooseSpecific (index.js:145-188).  cx is the session state the    *)
(* function reads: swaggerVersion, validators, definitions.                *)
(***************************************************************************)
getMongooseSpecific(props, property, cx) ==
    LET mongooseProperty == getMongooseProperty(cx.swaggerVersion)
        v2 == isAtLeastSwagger2(cx.swaggerVersion)
        direct == Has(property, mongooseProperty)
        viaItems == ~direct /\ isMongooseArray(property, cx.swaggerVersion)
        mongooseSpecific == IF direct THEN property[mongooseProperty]
                            ELSE property.items[mongooseProperty]
        refHolder == IF v2 THEN mongooseSpecific
                     ELSE IF direct THEN property ELSE property.items
    IN
    IF ~direct /\ ~viaItems THEN Ok(props)
    ELSE IF Has(refHolder, "$ref") THEN
        IF ~v2 THEN
            IF Has(mongooseSpecific, "type") /\ mongooseSpecific.type = "objectId"
            THEN IF Has(mongooseSpecific, "includeSwaggerRef")
                    /\ mongooseSpecific.includeSwaggerRef = FALSE
                 THEN Ok([type |-> Ctor("ObjectId")])
                 ELSE Ok(ObjectIdRef(replaceDefinitionsPrefix(refHolder["$ref"])))
            ELSE Ok(EmptyObj)
        ELSE Ok(ObjectIdRef(replaceDefinitionsPrefix(refHolder["$ref"])))
    ELSE IF Has(mongooseSpecific, "validator") THEN
        LET validator == IF Has(cx.validators, mongooseSpecific.validator)
                         THEN cx.validators[mongooseSpecific.validator]
                         ELSE Undefined
        IN Ok(RawType(Del(Put(property, "validate", validator), mongooseProperty)))
    ELSE
        LET ret == Del(Extend(property, mongooseSpecific), mongooseProperty) IN
        IF isSimpleSchema(ret)
        THEN LET t == propertyMap(ret) IN
             IF t.err # "" THEN t ELSE Ok(Put(ret, "type", t.val))
        ELSE Ok(RawType(ret))

(***************************************************************************)
(* processPolymorphic (index.js:234-261).  The in-place rewrite is the     *)
(* returned node; the caller stores it where the node lives.               *)
(***************************************************************************)
\* mergedReqs.add(req) for each req, in order: a Set keeps first insertions.
RECURSIVE addAll(_, _, _)
addAll(mergedReqs, reqs, i) ==
    IF i > Len(reqs) THEN mergedReqs
    ELSE IF \E j \in 1..Len(mergedReqs) : mergedReqs[j] = reqs[i]
    THEN addAll(mergedReqs, reqs, i + 1)
    ELSE addAll(Append(mergedReqs, reqs[i]), reqs, i + 1)

foldFragmentFirstWins(acc, object) ==
    [props |-> IF Has(object, "properties") THEN Extend(object.properties, acc.props)
               ELSE acc.props,
     reqs |-> IF Has(object, "required") THEN addAll(acc.reqs, object.required, 1)
              ELSE acc.reqs]

foldFragment(acc, object) ==
    [props |-> IF Has(object, "properties") THEN Extend(acc.props, object.properties)
               ELSE acc.props,
     reqs |-> IF Has(object, "required") THEN addAll(acc.reqs, object.required, 1)
              ELSE acc.reqs]

RECURSIVE mergeAllOf(_, _, _, _)
mergeAllOf(allOf, i, acc, defs) ==
    IF i > Len(allOf) THEN Ok(acc)
    ELSE LET polyDef == allOf[i] IN
         IF Has(polyDef, "$ref") THEN
             \* match(...) is null, or definitions[propType] is undefined
             IF ~refRegExpMatches(polyDef["$ref"]) \/ ~Has(defs, polyDef["$ref"].name)
             THEN Throw("TypeError")
             ELSE mergeAllOf(allOf, i + 1, foldFragment(acc, defs[polyDef["$ref"].name]), defs)
         ELSE mergeAllOf(allOf, i + 1, foldFragment(acc, polyDef), defs)

processPolymorphic(definition, defs) ==
    LET m == mergeAllOf(definition.allOf, 1, [props |-> EmptyObj, reqs |-> <<>>], defs) IN
    IF m.err # "" THEN m
    ELSE LET withProps == IF DOMAIN m.val.props # {}
                          THEN Put(definition, "properties", m.val.props)
                          ELSE definition
             withReqs == IF m.val.reqs # <<>>
                         THEN Put(withProps, "required", m.val.reqs)
                         ELSE withProps
         IN Ok(Del(withReqs, "allOf"))

(***************************************************************************)
(* getSchema, getSchemaProperty, processRef (index.js:194-222, 263-323).   *)
(* Each returns [err, val, definitions]: what it raised, the property map  *)
(* it built, and the definition registry after the in-place rewrites of    *)
(* processPolymorphic.  d is the room left on the call stack.  The result  *)
(* of a call is handed on as an operator argument, so that it is computed  *)
(* once: an operator named ...Then is the rest of the function it follows. *)
(***************************************************************************)
Ret(v, defs) == [err |-> "", val |-> v, definitions |-> defs]
Raise(e, defs) == [err |-> e, val |-> EmptyObj, definitions |-> defs]
WithDefs(cx, defs) == [cx EXCEPT !.definitions = defs]

RECURSIVE getSchema(_, _, _, _, _)
RECURSIVE getSchemaEach(_, _, _, _, _, _, _, _)
RECURSIVE getSchemaProperty(_, _, _, _, _, _)
RECURSIVE processRef(_, _, _, _, _, _, _)

getSchemaEachThen(r, keys, i, object, props, required, objectName, cx, d) ==
    IF r.err # "" THEN r
    ELSE getSchemaEach(keys, i + 1, object, Extend(props, r.val), required,
                       objectName, WithDefs(cx, r.definitions), d)

\* _.forEach(object, ...) of getSchema, from the i-th key on.
getSchemaEach(keys, i, object, props, required, objectName, cx, d) ==
    IF i > Len(keys) THEN Ret(props, cx.definitions)
    ELSE getSchemaEachThen(
             getSchemaProperty(object[keys[i]], keys[i], required, objectName, cx, d - 1),
             keys, i, object, props, required, objectName, cx, d)

\* getSchema once `required` is read and processPolymorphic has run (poly).
getSchemaThen(poly, required, objectName, fullObject, inRegistry, cx, d) ==
    IF poly.err # "" THEN Raise(poly.err, cx.definitions)
    ELSE
    LET defs1 == IF inRegistry /\ isPolymorphic(fullObject)
                 THEN Put(cx.definitions, objectName, poly.val)
                 ELSE cx.definitions
        object == IF Has(poly.val, "properties") THEN poly.val.properties ELSE poly.val
    IN
    \* A node without properties is iterated itself; its type string is then
    \* compiled as a nested object and iterated character by character, each
    \* character again a string: the recursion never ends.
    IF ~Has(poly.val, "properties") /\ Has(poly.val, "type")
    THEN Raise("RangeError", defs1)
    ELSE getSchemaEach(Keys(object), 1, object, EmptyObj, required, objectName,
                       WithDefs(cx, defs1), d)

\* `required` as getSchema reads it: const required = fullObject.required || [].
requiredOf(fullObject) ==
    [arr |-> IF Has(fullObject, "required") THEN fullObject.required ELSE <<>>]

\* inRegistry: fullObject is the object definitions[objectName] itself, so
\* that processPolymorphic's rewrite of it is seen by later readers.
getSchema(objectName, fullObject, inRegistry, cx, d) ==
    IF d = 0 THEN Raise("RangeError", cx.definitions)
    ELSE getSchemaThen(IF isPolymorphic(fullObject)
                       THEN processPolymorphic(fullObject, cx.definitions)
                       ELSE Ok(fullObject),
                       requiredOf(fullObject), objectName, fullObject, inRegistry, cx, d)

\* After the branch: the default, once fillRequired has run (filled).
finishDefault(filled, defs, property, key) ==
    IF filled.err # "" THEN Raise(filled.err, defs)
    ELSE IF Has(property, "default")
    THEN IF Has(filled.val, key) /\ filled.val[key] # Undefined
         THEN Ret(Put(filled.val, key, Put(filled.val[key], "default", property.default)),
                  defs)
         ELSE Raise("TypeError", defs)
    ELSE Ret(filled.val, defs)

\* After the branch (r): fillRequired when required is truthy, then the default.
finishProperty(r, property, key, required) ==
    IF r.err # "" THEN r
    ELSE finishDefault(IF Has(required, "arr") \/ (Has(required, "bool") /\ required.bool)
                       THEN fillRequired(r.val, key, required)
                       ELSE Ok(r.val),
                       r.definitions, property, key)

\* props[key] = value, value the result r of a call that leaves definitions alone.
assignValue(r, key, defs) ==
    IF r.err # "" THEN Raise(r.err, defs) ELSE Ret(key :> r.val, defs)
assignArrayOf(r, key, defs) ==
    IF r.err # "" THEN Raise(r.err, defs) ELSE Ret(key :> Arr(r.val), defs)
\* props[key] = getSchema(key, property)
assignSchema(r, key) ==
    IF r.err # "" THEN r ELSE Ret(key :> r.val, r.definitions)
\* props[key] = { type, enum: property.enum } or { type }
assignType(t, property, key, defs) ==
    IF t.err # "" THEN Raise(t.err, defs)
    ELSE IF Has(property, "enum")
    THEN Ret(key :> [type |-> t.val, enum |-> property.enum], defs)
    ELSE Ret(key :> [type |-> t.val], defs)
\* processPolymorphic(property): the rewrite is of the property node, and
\* nothing is emitted for the key.
assignNothing(r, defs) ==
    IF r.err # "" THEN Raise(r.err, defs) ELSE Ret(EmptyObj, defs)

\* The argument `object` of the source is read only by a branch no property
\* reaches (every type is either 'object' or not), so it is left out.  The
\* undefined returned for a reserved key is the empty map: every caller that
\* can pass a reserved key reads the result through _.extend.
getSchemaProperty(property, key, required, objectName, cx, d) ==
    IF d = 0 THEN Raise("RangeError", cx.definitions)
    ELSE IF isMongodbReserved(key) THEN Ret(EmptyObj, cx.definitions)
    ELSE finishProperty(
        IF isMongooseProperty(property, cx.swaggerVersion) THEN
            assignValue(getMongooseSpecific(EmptyObj, property, cx), key, cx.definitions)
        ELSE IF isMongooseArray(property, cx.swaggerVersion) THEN
            assignArrayOf(getMongooseSpecific(EmptyObj, property, cx), key, cx.definitions)
        ELSE IF isPropertyHasRefThrows(property) THEN Raise("TypeError", cx.definitions)
        ELSE IF isPropertyHasRef(property) THEN
            processRef(property, objectName, EmptyObj, key, required, cx, d - 1)
        ELSE IF isPolymorphic(property) THEN
            assignNothing(processPolymorphic(property, cx.definitions), cx.definitions)
        ELSE IF ~Has(property, "type") \/ property.type = "object" THEN
            assignSchema(getSchema(key, property, FALSE, cx, d - 1), key)
        ELSE assignType(propertyMap(property), property, key, cx.definitions),
        property, key, required)

\* processRef's last statement: fillRequired(props, key, required).
processRefThen(assigned, key, required) ==
    IF assigned.err # "" THEN assigned
    ELSE LET filled == fillRequired(assigned.val, key, required) IN
         IF filled.err # "" THEN Raise(filled.err, assigned.definitions)
         ELSE Ret(filled.val, assigned.definitions)

\* props[key] = property.items || object.type === 'array' ? [schema] : schema
assignEmbedded(r, props, key, wrap) ==
    IF r.err # "" THEN r
    ELSE Ret(Put(props, key, IF wrap THEN Arr(r.val) ELSE r.val), r.definitions)

\* props[key] = property.items ? [schemaProp] : schemaProp, schemaProp being
\* getSchemaProperty(clone, key)[key], undefined when nothing was emitted.
assignSchemaProp(r, props, key, wrap) ==
    IF r.err # "" THEN r
    ELSE IF wrap
    THEN Ret(Put(props, key, Arr(IF Has(r.val, key) THEN r.val[key] ELSE Undefined)),
             r.definitions)
    ELSE Ret(Put(props, key, IF Has(r.val, key) THEN r.val[key] ELSE Undefined),
             r.definitions)

\* The branch of processRef for a reference to another definition.
embedDefinition(property, object, propType, props, key, cx, d) ==
    IF Has(object, "type") /\ object.type \in {"array", "object"}
    THEN assignEmbedded(
             getSchema(propType,
                       IF Has(object, "properties") THEN object.properties ELSE object,
                       ~Has(object, "properties"), cx, d - 1),
             props, key, Has(property, "items") \/ object.type = "array")
    ELSE assignSchemaProp(
             getSchemaProperty(Del(object, getMongooseProperty(cx.swaggerVersion)), key,
                               Undefined, UndefinedName, cx, d - 1),
             props, key, Has(property, "items"))

refStringOf(property) ==
    IF Has(property, "$ref") THEN property["$ref"] ELSE property.items["$ref"]

processRef(property, objectName, props, key, required, cx, d) ==
    IF d = 0 THEN Raise("RangeError", cx.definitions)
    ELSE processRefThen(
        \* match(...) is null: null[1] raises
        IF ~refRegExpMatches(refStringOf(property)) THEN Raise("TypeError", cx.definitions)
        ELSE IF refStringOf(property).name # objectName THEN
            \* NOT circular reference; object.type raises when object is undefined
            IF ~Has(cx.definitions, refStringOf(property).name)
            THEN Raise("TypeError", cx.definitions)
            ELSE embedDefinition(property, cx.definitions[refStringOf(property).name],
                                 refStringOf(property).name, props, key, cx, d)
        ELSE IF refStringOf(property).name # "" THEN
            \* circular reference
            Ret(Put(props, key,
                    ObjectIdRef([prefix |-> "", name |-> refStringOf(property).name])),
                cx.definitions)
        ELSE Ret(props, cx.definitions),
        key, required)

(***************************************************************************)
(* processAdditionalProperties (index.js:367-379).                         *)
(***************************************************************************)
RECURSIVE processAdditionalEach(_, _, _, _, _, _)

processAdditionalThen(r, keys, i, additionalProperties, props, objectName, cx) ==
    IF r.err # "" THEN Throw(r.err)
    ELSE processAdditionalEach(keys, i + 1, additionalProperties,
                               Extend(props, r.val), objectName, cx)

requiredFacet(property) ==
    IF Has(property, "required") THEN [bool |-> property.required] ELSE Undefined

processAdditionalEach(keys, i, additionalProperties, props, objectName, cx) ==
    IF i > Len(keys) THEN Ok(props)
    ELSE processAdditionalThen(
             getSchemaProperty(getMongooseProperty(cx.swaggerVersion)
                                   :> additionalProperties[keys[i]],
                               keys[i], requiredFacet(additionalProperties[keys[i]]),
                               objectName, cx, MaxDepth),
             keys, i, additionalProperties, props, objectName, cx)

processAdditionalProperties(additionalProperties, objectName, cx) ==
    processAdditionalEach(Keys(additionalProperties), 1, additionalProperties,
                          EmptyObj, objectName, cx)

(***************************************************************************)
(* The session: applyExtraDefinitions, processMongooseDefinition,          *)
(* processDocumentIndex, compile, compileAsync (index.js:103-127, 325-365, *)
(* 381-456).  S is the record of the four module-level variables.          *)
(***************************************************************************)
Session == [definitions |-> definitions, swaggerVersion |-> swaggerVersion,
            xSwaggerMongoose |-> xSwaggerMongoose, validators |-> validators]

\* The module state right after require('./lib/index.js').
FreshSession ==
    [definitions |-> EmptyObj,       \* null
     swaggerVersion |-> 0,           \* null
     xSwaggerMongoose |-> [schemaOptions |-> EmptyObj, additionalProperties |-> EmptyObj,
                           excludeSchema |-> EmptyObj, documentIndex |-> EmptyObj],
     validators |-> EmptyObj]

\* Number(swaggerJSON.swagger), in tenths.
NumberOf(text) ==
    CASE text = "2.0" -> 20
      [] text = "3.0" -> 30
      [] text = "1.2" -> 12
      [] OTHER -> 0

\* require(validatorsDirectory): the functions the module at that path exports.
requireModule(path) ==
    IF path = "./validators"
    THEN "isEmail" :> [fn |-> "isEmail", module |-> path]
    ELSE EmptyObj

\* applyExtraDefinitions: _extraDefinitions is Undefined or an object.
RECURSIVE broadcastDefault(_, _, _, _, _)
broadcastDefault(keys, i, defs, mongooseProperty, defaultDefs) ==
    IF i > Len(keys) THEN defs
    ELSE broadcastDefault(keys, i + 1,
                          Put(defs, keys[i], Put(defs[keys[i]], mongooseProperty, defaultDefs)),
                          mongooseProperty, defaultDefs)

RECURSIVE installExtra(_, _, _, _, _)
installExtra(keys, i, defs, mongooseProperty, extraDefinitions) ==
    IF i > Len(keys) THEN Ret(EmptyObj, defs)
    ELSE IF ~Has(defs, keys[i]) THEN Raise("TypeError", defs)
    ELSE installExtra(keys, i + 1,
                      Put(defs, keys[i],
                          Put(defs[keys[i]], mongooseProperty, extraDefinitions[keys[i]])),
                      mongooseProperty, extraDefinitions)

applyExtraDefinitions(defs, _extraDefinitions, version) ==
    IF _extraDefinitions = Undefined THEN Ret(EmptyObj, defs)
    ELSE
    LET mongooseProperty == getMongooseProperty(version)
        defs1 == IF Has(_extraDefinitions, "default")
                 THEN broadcastDefault(Keys(defs), 1, defs, mongooseProperty,
                                       _extraDefinitions["default"])
                 ELSE defs
        extraDefinitions == Del(_extraDefinitions, "default")
    IN installExtra(Keys(extraDefinitions), 1, defs1, mongooseProperty, extraDefinitions)

processMongooseDefinition(key, customOptions, S) ==
    LET X == S.xSwaggerMongoose
        X1 == IF Has(customOptions, "schema-options")
              THEN [X EXCEPT !.schemaOptions = Put(@, key, customOptions["schema-options"])]
              ELSE X
        X2 == IF Has(customOptions, "exclude-schema") /\ customOptions["exclude-schema"]
              THEN [X1 EXCEPT !.excludeSchema = Put(@, key, customOptions["exclude-schema"])]
              ELSE X1
        X3 == IF Has(customOptions, "additional-properties")
              THEN [X2 EXCEPT !.additionalProperties =
                                  Put(@, key, customOptions["additional-properties"])]
              ELSE X2
        X4 == IF Has(customOptions, "index")
              THEN [X3 EXCEPT !.documentIndex = Put(@, key, customOptions["index"])]
              ELSE X3
    IN [S EXCEPT !.xSwaggerMongoose = X4,
                 !.validators = IF Has(customOptions, "validators")
                                THEN requireModule(customOptions["validators"])
                                ELSE @]

\* processDocumentIndex: the calls made on the schema, and the index object
\* after `delete index.unique`.  index is Undefined when none is registered.
processDocumentIndex(index) ==
    IF index = Undefined \/ DOMAIN index = {}
    THEN [calls |-> <<>>, index |-> index]
    ELSE LET isUniqueIndex == Has(index, "unique") /\ index.unique
             stripped == Del(index, "unique")
         IN [calls |-> <<[fields |-> stripped, unique |-> isUniqueIndex]>>,
             index |-> stripped]

\* new mongoose.Schema(object, options) and the schema.index calls on it.
SchemaHandle(object, options, indexCalls) ==
    [obj |-> object, options |-> options, indexes |-> indexCalls]
\* mongoose.model(key, schema)
ModelHandle(key, schema) == [modelName |-> key, schema |-> schema]

At(o, k) == IF Has(o, k) THEN o[k] ELSE EmptyObj

\* What the functions called from compile read of the session.
Context(S) == [swaggerVersion |-> S.swaggerVersion, validators |-> S.validators,
               definitions |-> S.definitions]

\* The body of the loop over the definitions (index.js:402-437), in four
\* stages; each yields [S, schemas, err].
\* Last stage: ap is the result of processAdditionalProperties.
compileDefinitionStore(ap, r, S2, schemas, key, customMongooseProperty) ==
    IF ap.err # "" THEN [S |-> S2, schemas |-> schemas, err |-> ap.err]
    ELSE
    LET X == S2.xSwaggerMongoose
        options == Extend(At(X.schemaOptions, customMongooseProperty), At(X.schemaOptions, key))
        object == Extend(r.val, ap.val)
        ix == processDocumentIndex(IF Has(X.documentIndex, key) THEN X.documentIndex[key]
                                   ELSE Undefined)
        S3 == IF Has(X.documentIndex, key)
              THEN [S2 EXCEPT !.xSwaggerMongoose.documentIndex = Put(@, key, ix.index)]
              ELSE S2
    IN [S |-> S3,
        schemas |-> Put(schemas, key, SchemaHandle(object, options, ix.calls)),
        err |-> ""]

\* Third stage: S2 is the session once getSchema has returned r.
compileDefinitionObject(r, S2, schemas, key, customMongooseProperty) ==
    LET X == S2.xSwaggerMongoose IN
    IF r.err # "" THEN [S |-> S2, schemas |-> schemas, err |-> r.err]
    ELSE IF Has(X.excludeSchema, customMongooseProperty) \/ Has(X.excludeSchema, key)
    THEN [S |-> S2, schemas |-> schemas, err |-> ""]
    ELSE compileDefinitionStore(
             processAdditionalProperties(
                 Extend(At(X.additionalProperties, customMongooseProperty),
                        At(X.additionalProperties, key)),
                 key, Context(S2)),
             r, S2, schemas, key, customMongooseProperty)

compileDefinitionSchema(r, S1, schemas, key, customMongooseProperty) ==
    compileDefinitionObject(r, [S1 EXCEPT !.definitions = r.definitions], schemas, key,
                            customMongooseProperty)

\* Second stage: S1 is the session once the definition's block is registered.
compileDefinitionRegistered(S1, schemas, key, customMongooseProperty) ==
    IF Has(S1.xSwaggerMongoose.excludeSchema, key)
    THEN [S |-> S1, schemas |-> schemas, err |-> ""]
    ELSE compileDefinitionSchema(
             getSchema(key, S1.definitions[key], TRUE, Context(S1), MaxDepth),
             S1, schemas, key, customMongooseProperty)

compileDefinition(S0, schemas, key, customMongooseProperty) ==
    compileDefinitionRegistered(
        IF Has(S0.definitions[key], customMongooseProperty)
        THEN processMongooseDefinition(key, S0.definitions[key][customMongooseProperty], S0)
        ELSE S0,
        schemas, key, customMongooseProperty)

RECURSIVE compileEach(_, _, _, _, _)

compileEachThen(r, keys, i, customMongooseProperty) ==
    IF r.err # "" THEN r
    ELSE compileEach(keys, i + 1, r.S, r.schemas, customMongooseProperty)

\* _.forEach(definitions, ...) of compile, from the i-th key on.
compileEach(keys, i, S, schemas, customMongooseProperty) ==
    IF i > Len(keys) THEN [S |-> S, schemas |-> schemas, err |-> ""]
    ELSE compileEachThen(compileDefinition(S, schemas, keys[i], customMongooseProperty),
                         keys, i, customMongooseProperty)

\* convertToJSON.  spec is [kind |-> "object", value |-> document],
\* [kind |-> "string", text |-> t], or another kind of value; a text t is
\* [encodes |-> document] or, when it is not JSON, [garbage |-> TRUE].
convertToJSON(spec) ==
    CASE spec.kind = "object" -> Ok(spec.value)
      [] spec.kind = "string" ->
            IF Has(spec.text, "encodes") THEN Ok(spec.text.encodes) ELSE Throw("SyntaxError")
      [] OTHER -> Throw("Unknown or invalid spec object")

\* !spec: null, undefined, 0, '' and false.
isFalsy(spec) == spec.kind \in {"null", "undefined", "zero", "emptyString", "false"}

Returned(v) == [kind |-> "returned", value |-> v]
Thrown(e) == [kind |-> "thrown", error |-> e]

\* The version compile works with: Number(swaggerJSON.swagger) when the
\* document has a swagger field, else what the session holds.
versionOf(swaggerJSON, S) ==
    IF Has(swaggerJSON, "swagger") /\ swaggerJSON.swagger # ""
    THEN NumberOf(swaggerJSON.swagger)
    ELSE S.swaggerVersion

\* definitions = swaggerJSON.definitions (undefined iterates as empty)
definitionsOf(swaggerJSON) ==
    IF Has(swaggerJSON, "definitions") THEN swaggerJSON.definitions ELSE EmptyObj

\* compile's return statement, r being what the loop over the definitions left.
compileReturn(r) ==
    IF r.err # "" THEN [S |-> r.S, outcome |-> Thrown(r.err)]
    ELSE [S |-> r.S,
          outcome |-> Returned([schemas |-> r.schemas,
                                models |-> [k \in DOMAIN r.schemas |->
                                               ModelHandle(k, r.schemas[k])]])]

\* compile from the document-level block on; S1 is the session with the
\* version and the registry of this document.
compileDefinitions(swaggerJSON, customMongooseProperty, S1) ==
    LET S2 == IF Has(swaggerJSON, customMongooseProperty)
              THEN processMongooseDefinition(customMongooseProperty,
                                             swaggerJSON[customMongooseProperty], S1)
              ELSE S1
    IN compileReturn(compileEach(Keys(S2.definitions), 1, S2, EmptyObj,
                                 customMongooseProperty))

\* compile once applyExtraDefinitions has run (applied).
compileApplied(applied, swaggerJSON, version, S) ==
    IF applied.err # ""
    THEN [S |-> [S EXCEPT !.swaggerVersion = version, !.definitions = applied.definitions],
          outcome |-> Thrown(applied.err)]
    ELSE compileDefinitions(swaggerJSON, getMongooseProperty(version),
             [S EXCEPT !.swaggerVersion = version, !.definitions = applied.definitions])

\* compile once convertToJSON has run (conv).
compileJSON(conv, _extraDefinitions, S) ==
    IF conv.err # "" THEN [S |-> S, outcome |-> Thrown(conv.err)]
    ELSE compileApplied(
             applyExtraDefinitions(definitionsOf(conv.val), _extraDefinitions,
                                   versionOf(conv.val, S)),
             conv.val, versionOf(conv.val, S), S)

\* compile(spec, _extraDefinitions) run on session S: [S, outcome].  The
\* document is a value of its own in each call: a caller that hands the same
\* object to two calls is not modelled.
compile(spec, _extraDefinitions, S) ==
    IF isFalsy(spec) THEN [S |-> S, outcome |-> Thrown("Swagger spec not supplied")]
    ELSE compileJSON(convertToJSON(spec), _extraDefinitions, S)

\* The callback invocations of compileAsync, c being what compile(spec) did.
\* callbackThrows[n] tells whether the n-th invocation of the callback
\* raises; log lists the invocations made.
compileAsyncCallback(c, callbackThrows) ==
    IF c.outcome.kind = "returned" THEN
        LET first == [err |-> Null, result |-> c.outcome.value] IN
        IF ~callbackThrows[1]
        THEN [S |-> c.S, log |-> <<first>>, outcome |-> Returned("callback's value"),
              compiled |-> c.outcome]
        ELSE
        \* the callback's own exception lands in the catch block
        LET second == [err |-> [message |-> "callback error"], result |-> Null] IN
        IF ~callbackThrows[2]
        THEN [S |-> c.S, log |-> <<first, second>>, outcome |-> Returned("callback's value"),
              compiled |-> c.outcome]
        ELSE [S |-> c.S, log |-> <<first, second>>, outcome |-> Thrown("callback error"),
              compiled |-> c.outcome]
    ELSE
        LET only == [err |-> [message |-> c.outcome.error], result |-> Null] IN
        IF ~callbackThrows[1]
        THEN [S |-> c.S, log |-> <<only>>, outcome |-> Returned("callback's value"),
              compiled |-> c.outcome]
        ELSE [S |-> c.S, log |-> <<only>>, outcome |-> Thrown("callback error"),
              compiled |-> c.outcome]

\* compileAsync(spec, callback) run on session S.
compileAsync(spec, callbackThrows, S) ==
    compileAsyncCallback(compile(spec, Undefined, S), callbackThrows)

(***************************************************************************)
(* The documents the calls are made with.                                  *)
(***************************************************************************)
Ptr(name) == [prefix |-> "#/definitions/", name |-> name]
RefTo(name) == "$ref" :> Ptr(name)
ArrayOfRef(name) == [type |-> "array", items |-> RefTo(name)]
String == [type |-> "string"]
V2(defs) == [swagger |-> "2.0", definitions |-> defs]
Block(b) == "x-swagger-mongoose" :> b

HouseProps == ("lng" :> [type |-> "double"]) @@ ("description" :> String)
                @@ ("_id" :> String)
PersonProps == ("login" :> [type |-> "string", default |-> "anonymous"])
                 @@ ("houses" :> ArrayOfRef("House")) @@ ("parent" :> RefTo("Person"))
                 @@ ("__v" :> [type |-> "integer"])
House == [required |-> <<"lng">>, properties |-> HouseProps]
Person == [required |-> <<"login">>, properties |-> PersonProps]

\* The sample of the repository, with a self reference and reserved fields.
DocPersons == V2([House |-> House, Person |-> Person])

\* A definition with self references, of type object, referenced by another.
SelfProps == ("annex" :> RefTo("House")) @@ ("annexes" :> ArrayOfRef("House"))
DocTyped ==
    V2([House |-> [type |-> "object", required |-> <<"lng", "annex">>,
                   properties |-> HouseProps @@ SelfProps],
        Person |-> [properties |-> ("login" :> String) @@ ("home" :> RefTo("House"))]])

\* The same, the self-referencing definition declaring no type.
DocSelfViaRef ==
    V2([House |-> [required |-> <<"lng">>, properties |-> HouseProps @@ ("annex" :> RefTo("House"))],
        Person |-> [properties |-> ("login" :> String) @@ ("home" :> RefTo("House"))]])
DocSelfViaItems ==
    V2([House |-> [properties |-> HouseProps @@ ("annexes" :> ArrayOfRef("House"))],
        Person |-> [properties |-> ("login" :> String) @@ ("houses" :> ArrayOfRef("House"))]])

DocExcludeOwn ==
    V2([House |-> House @@ Block("exclude-schema" :> TRUE), Person |-> Person])
DocExcludeTyped ==
    V2([House |-> [type |-> "object", properties |-> HouseProps]
                    @@ Block("exclude-schema" :> TRUE),
        Person |-> [properties |-> ("login" :> String) @@ ("home" :> RefTo("House"))]])
DocExcludeGlobal ==
    V2([House |-> House, Person |-> Person]) @@ Block("exclude-schema" :> TRUE)

DocOptions ==
    V2([House |->
          [required |-> <<"lng">>,
           properties |-> HouseProps
                @@ ("email" :> (String @@ Block([validator |-> "isEmail"])))
                @@ ("kind" :> [type |-> "string", enum |-> <<"flat", "villa">>])]
          @@ Block(("schema-options" :> [versionKey |-> FALSE])
                   @@ ("additional-properties" :>
                          (("_id" :> String) @@ ("__v" :> [type |-> "integer"])
                           @@ ("extra" :> [type |-> "string", required |-> TRUE])
                           @@ ("owner" :> RefTo("Person"))))
                   @@ ("index" :> [lng |-> 1, unique |-> TRUE])
                   @@ ("validators" :> "./validators")),
        Person |-> [properties |-> ("login" :> String)]])
      @@ Block("schema-options" :> [strict |-> TRUE])

Animal == [required |-> <<"name">>, properties |-> [name |-> String]]
PetFragment == [required |-> <<"tag">>,
                properties |-> [name |-> [type |-> "integer"], tag |-> String]]
DocAllOf ==
    V2([Animal |-> Animal,
        Pet |-> [allOf |-> <<RefTo("Animal"), PetFragment>>]])
\* The composed definition is first compiled where Person embeds it.
DocAllOfEmbedded ==
    V2([Animal |-> Animal,
        Person |-> [properties |-> ("login" :> String) @@ ("owner" :> RefTo("Pet"))],
        Pet |-> [type |-> "object", required |-> <<"name">>,
                 allOf |-> <<PetFragment, RefTo("Animal")>>]])

DocExtRef ==
    V2([House |-> [properties |->
                     ("owner" :> (String @@ Block(RefTo("Person"))))
                     @@ ("friends" :> [type |-> "array", items |-> Block(RefTo("Person"))])
                     @@ ("kind" :> (String @@ Block([type |-> "number", format |-> "double",
                                                     index |-> TRUE])))
                     @@ ("_id" :> (String @@ Block(RefTo("Person"))))
                     @@ ("home" :> ([type |-> "object", properties |-> HouseProps]
                                      @@ Block([index |-> TRUE])))],
        Person |-> [properties |-> ("login" :> String)]])
DocExtRefGhost ==
    V2([House |-> [properties |-> ("owner" :> (String @@ Block(RefTo("Ghost"))))]])

\* A document of the older format: no swagger field, _mongoose blocks.
DocV1 ==
    [definitions |->
        [House |-> [properties |->
                      ("lng" :> [type |-> "double"])
                      @@ ("owner" :> (RefTo("Person") @@ ("_mongoose" :> [type |-> "objectId"])))],
         Person |-> [properties |-> ("login" :> String)]
                      @@ ("_mongoose" :> ("exclude-schema" :> TRUE))]]

DocBadType == V2([House |-> [properties |-> ("kind" :> [type |-> "file"])]])
DocBadFormat == V2([House |-> [properties |-> ("lng" :> [type |-> "number", format |-> "int32"])]])

Obj(doc) == [kind |-> "object", value |-> doc]
Documents == {DocPersons, DocTyped, DocSelfViaRef, DocSelfViaItems, DocExcludeOwn,
              DocExcludeTyped, DocExcludeGlobal, DocOptions, DocAllOf, DocAllOfEmbedded,
              DocExtRef, DocExtRefGhost, DocV1, DocBadType, DocBadFormat}
OtherSpecs == {[kind |-> "null"], [kind |-> "number"],
               [kind |-> "string", text |-> [garbage |-> TRUE]],
               [kind |-> "string", text |-> [encodes |-> DocPersons]]}

Timestamps == "schema-options" :> [timestamps |-> TRUE]
ExtraDefault == [default |-> Timestamps]
ExtraDefaultAndOwn == [default |-> Timestamps,
                       House |-> ("schema-options" :> [versionKey |-> FALSE])]
ExtraOwnOnly == [House |-> ("exclude-schema" :> TRUE)]
ExtraGhost == [Ghost |-> Timestamps]

CompileInputs ==
    {<<Obj(doc), Undefined>> : doc \in Documents}
      \cup {<<spec, Undefined>> : spec \in OtherSpecs}
      \cup {<<Obj(DocPersons), extra>> :
                extra \in {ExtraDefault, ExtraDefaultAndOwn, ExtraOwnOnly, ExtraGhost}}
      \cup {<<Obj(DocOptions), ExtraDefault>>}

AsyncInputs ==
    {<<spec, throws>> : spec \in {Obj(DocPersons), Obj(DocBadType), [kind |-> "null"]},
                        throws \in {<<FALSE, FALSE>>, <<TRUE, FALSE>>, <<TRUE, TRUE>>}}

(***************************************************************************)
(* The process: a sequence of calls to compile and compileAsync.           *)
(***************************************************************************)
Install(S) ==
    /\ definitions' = S.definitions
    /\ swaggerVersion' = S.swaggerVersion
    /\ xSwaggerMongoose' = S.xSwaggerMongoose
    /\ validators' = S.validators

Init ==
    /\ definitions = FreshSession.definitions
    /\ swaggerVersion = FreshSession.swaggerVersion
    /\ xSwaggerMongoose = FreshSession.xSwaggerMongoose
    /\ validators = FreshSession.validators
    /\ calls = 0
    /\ lastCall = [fn |-> "none"]
    /\ outcome = [kind |-> "none"]
    /\ cbLog = <<>>

\* c is what the call did: the session it left and its outcome.
Completed(c) ==
    /\ Install(c.S)
    /\ outcome' = c.outcome

Compile(spec, _extraDefinitions) ==
    /\ calls < MaxCalls
    /\ Completed(compile(spec, _extraDefinitions, Session))
    /\ lastCall' = [fn |-> "compile", spec |-> spec, extra |-> _extraDefinitions]
    /\ cbLog' = <<>>
    /\ calls' = calls + 1

CompletedAsync(c, spec, callbackThrows) ==
    /\ Completed(c)
    /\ cbLog' = c.log
    /\ lastCall' = [fn |-> "compileAsync", spec |-> spec,
                    callbackThrows |-> callbackThrows, compiled |-> c.compiled]

CompileAsync(spec, callbackThrows) ==
    /\ calls < MaxCalls
    /\ CompletedAsync(compileAsync(spec, callbackThrows, Session), spec, callbackThrows)
    /\ calls' = calls + 1

Next ==
    \/ \E in \in CompileInputs : Compile(in[1], in[2])
    \/ \E in \in AsyncInputs : CompileAsync(in[1], in[2])

Spec == Init /\ [][Next]_vars

(***************************************************************************)
(* propertyMap on its own: each descriptor is mapped, MaxCalls times.      *)
(***************************************************************************)
TypeNames == allowedTypes \cup {"object", "file", "objectId"}
FormatNames == {"integer", "long", "float", "double", "int32"}
ScalarDescriptors ==
    {[type |-> t] : t \in TypeNames \ {"array"}}
      \cup {[type |-> t, format |-> f] : t \in TypeNames \ {"array"}, f \in FormatNames}
      \cup {EmptyObj, [format |-> "double"]}

\* Descriptors with arrays nested at most n deep; an array may lack its items.
RECURSIVE DescriptorsUpTo(_)
DescriptorsUpTo(n) ==
    IF n = 0 THEN ScalarDescriptors
    ELSE ScalarDescriptors \cup {[type |-> "array"]}
           \cup {[type |-> "array", items |-> d] : d \in DescriptorsUpTo(n - 1)}
Descriptors == DescriptorsUpTo(MaxNest)

InitPM ==
    /\ definitions = FreshSession.definitions
    /\ swaggerVersion = FreshSession.swaggerVersion
    /\ xSwaggerMongoose = FreshSession.xSwaggerMongoose
    /\ validators = FreshSession.validators
    /\ calls = 0
    /\ lastCall \in {[fn |-> "propertyMap", property |-> d] : d \in Descriptors}
    /\ outcome = [kind |-> "none"]
    /\ cbLog = <<>>

MapResult(r) == IF r.err # "" THEN Thrown(r.err) ELSE Returned(r.val)

PropertyMap ==
    /\ calls < MaxCalls
    /\ outcome' = MapResult(propertyMap(lastCall.property))
    /\ calls' = calls + 1
    /\ UNCHANGED <<definitions, swaggerVersion, xSwaggerMongoose, validators,
                   lastCall, cbLog>>

SpecPM == InitPM /\ [][PropertyMap]_vars

(***************************************************************************)
(* processPolymorphic on its own: a node is merged against a registry.     *)
(***************************************************************************)
PolyRegistry == [Animal |-> Animal, House |-> [properties |-> HouseProps]]
Fragments ==
    {PetFragment,
     [properties |-> [name |-> [type |-> "boolean"]]],
     [required |-> <<"tag", "name">>],
     EmptyObj,
     RefTo("Animal"), RefTo("House"), RefTo("Ghost")}

RECURSIVE FragmentSeqs(_)
FragmentSeqs(n) ==
    IF n = 0 THEN {<<>>}
    ELSE FragmentSeqs(n - 1)
           \cup {Append(fs, f) : fs \in {x \in FragmentSeqs(n - 1) : Len(x) = n - 1},
                                 f \in Fragments}

OwnFacets == {EmptyObj,
              [properties |-> [kind |-> String]],
              [required |-> <<"kind">>],
              [type |-> "object", properties |-> [kind |-> String], required |-> <<"kind">>]}
PolyNodes == {own @@ [allOf |-> fs] : own \in OwnFacets, fs \in FragmentSeqs(MaxFrags)}

InitPoly ==
    /\ definitions = PolyRegistry
    /\ swaggerVersion = 20
    /\ xSwaggerMongoose = FreshSession.xSwaggerMongoose
    /\ validators = FreshSession.validators
    /\ calls = 0
    /\ lastCall \in {[fn |-> "processPolymorphic", node |-> n] : n \in PolyNodes}
    /\ outcome = [kind |-> "none"]
    /\ cbLog = <<>>

ProcessPolymorphic ==
    /\ calls = 0
    /\ outcome' = MapResult(processPolymorphic(lastCall.node, definitions))
    /\ calls' = calls + 1
    /\ UNCHANGED <<definitions, swaggerVersion, xSwaggerMongoose, validators,
                   lastCall, cbLog>>

SpecPoly == InitPoly /\ [][ProcessPolymorphic]_vars

(***************************************************************************)
(* Reading a call and what it returned.                                    *)
(***************************************************************************)
CompileReturned == lastCall.fn = "compile" /\ outcome.kind = "returned"
\* The document of the last call to compile that returned.
LastDoc == convertToJSON(lastCall.spec).val
Schemas == outcome.value.schemas
Models == outcome.value.models
Elements(seq) == {seq[i] : i \in 1..Len(seq)}
Reserved == {"_id", "__v"}

\* A value of a compiled property map is a descriptor (it has a type facet),
\* an array of a value, undefined, or an embedded property map.
Unwrapped(v) == IF Has(v, "arrayOf") THEN v.arrayOf ELSE v

(***************************************************************************)
(* C1: the schemas, options and skipped definitions that compile(doc,      *)
(* extra) produces are the same whatever calls ran before it in the        *)
(* process: they are what the call produces right after the module is      *)
(* loaded.                                                                 *)
(***************************************************************************)
C1_SessionRebuiltPerCall ==
    lastCall.fn = "compile" =>
        outcome = compile(lastCall.spec, lastCall.extra, FreshSession).outcome

(***************************************************************************)
(* C2: compiling a document whose only cycles are direct self references   *)
(* terminates, and every self-referencing field of a definition D is       *)
(* emitted as {type: ObjectId, ref: D}, in D's own schema and where        *)
(* another definition embeds D through a reference.                        *)
(***************************************************************************)
RefTarget(property) == refStringOf(property).name
PropertiesOf(def) == IF Has(def, "properties") THEN def.properties ELSE EmptyObj
\* The key of the extension blocks of a document, by the version it declares.
DeclaredKey(doc) ==
    getMongooseProperty(IF Has(doc, "swagger") THEN NumberOf(doc.swagger) ELSE 0)
\* The fields of def that are references (direct or as array items) to name
\* and carry no extension block under key.
RefFields(def, name, key) ==
    {f \in DOMAIN PropertiesOf(def) \ Reserved :
        /\ ~Has(PropertiesOf(def)[f], key)
        /\ isPropertyHasRef(PropertiesOf(def)[f])
        /\ RefTarget(PropertiesOf(def)[f]) = name}
IsRefDescriptor(v, name) ==
    /\ Has(v, "type") /\ v.type = Ctor("ObjectId")
    /\ Has(v, "ref") /\ v.ref = [prefix |-> "", name |-> name]

\* C2: compile does not overflow the stack, and each self-referencing field
\* f of D is {type: ObjectId, ref: D} in the schema of D and in every
\* embedding of D under a field g of another definition R.
C2_SelfReferenceTerminates ==
    (lastCall.fn = "compile" /\ convertToJSON(lastCall.spec).err = "") =>
        LET defs == definitionsOf(LastDoc) IN
        \A D \in DOMAIN defs : \A f \in RefFields(defs[D], D, DeclaredKey(LastDoc)) :
            /\ outcome # Thrown("RangeError")
            /\ outcome.kind = "returned" =>
                 /\ D \in DOMAIN Schemas => IsRefDescriptor(Schemas[D].obj[f], D)
                 /\ \A R \in DOMAIN Schemas \ {D} :
                      \A g \in RefFields(defs[R], D, DeclaredKey(LastDoc)) :
                        /\ f \in DOMAIN Unwrapped(Schemas[R].obj[g])
                        /\ IsRefDescriptor(Unwrapped(Schemas[R].obj[g])[f], D)

(***************************************************************************)
(* C3: no compiled property map that compile returns, at any nesting       *)
(* depth (declared properties, embedded definitions, nested objects,       *)
(* additional properties), has a field named _id or __v.                   *)
(***************************************************************************)
RECURSIVE NoReservedField(_)
NoReservedField(v) ==
    IF v = Undefined THEN TRUE
    ELSE IF Has(v, "arrayOf") THEN NoReservedField(v.arrayOf)
    ELSE IF Has(v, "type") THEN TRUE
    ELSE \A k \in DOMAIN v : k \notin Reserved /\ NoReservedField(v[k])

RECURSIVE RefsResolved(_, _)
RefsResolved(v, registry) ==
    IF v = Undefined THEN TRUE
    ELSE IF Has(v, "arrayOf") THEN RefsResolved(v.arrayOf, registry)
    ELSE IF Has(v, "type")
    THEN (v.type = Ctor("ObjectId") /\ Has(v, "ref")) =>
            (v.ref.prefix = "" /\ v.ref.name \in DOMAIN registry)
    ELSE \A k \in DOMAIN v : RefsResolved(v[k], registry)

\* C4: every reference descriptor of a returned schema names a key of the
\* registry the call worked with.
C4_ReferencesResolved ==
    CompileReturned => \A k \in DOMAIN Schemas : RefsResolved(Schemas[k].obj, definitions)

(***************************************************************************)
(* C5: processPolymorphic on a node whose fragments are inline or refer    *)
(* to registered definitions installs the fold of the fragments'           *)
(* properties (a field takes the definition of the last fragment that      *)
(* declares it), installs the union of the fragments' required entries,    *)
(* and removes allOf.  As amended: each of the two is installed when it    *)
(* is not empty, and the node keeps its own otherwise.                     *)
(***************************************************************************)
PolyReturnedOrRaised == lastCall.fn = "processPolymorphic" /\ outcome.kind # "none"
HasFragments == Len(lastCall.node.allOf) >= 1
\* The objects the fragments of the node stand for.
Resolvable(f) == Has(f, "$ref") => (refRegExpMatches(f["$ref"]) /\ Has(definitions, f["$ref"].name))
FragmentObject(f) == IF Has(f, "$ref") THEN definitions[f["$ref"].name] ELSE f
FragmentsOf(node) == [i \in 1..Len(node.allOf) |-> FragmentObject(node.allOf[i])]
Declares(o, x) == Has(o, "properties") /\ Has(o.properties, x)
FoldedNames(frags) == UNION {DOMAIN PropertiesOf(frags[i]) : i \in 1..Len(frags)}
LastDeclaring(frags, x) ==
    CHOOSE i \in 1..Len(frags) :
        Declares(frags[i], x) /\ \A j \in (i + 1)..Len(frags) : ~Declares(frags[j], x)
UnionRequired(frags) ==
    UNION {IF Has(frags[i], "required") THEN Elements(frags[i].required) ELSE {} :
              i \in 1..Len(frags)}
\* properties of the result are the fold of the fragments.
FoldInstalled(result, frags) ==
    /\ DOMAIN PropertiesOf(result) = FoldedNames(frags)
    /\ \A x \in FoldedNames(frags) :
          result.properties[x] = frags[LastDeclaring(frags, x)].properties[x]
\* required of the result is the union of the fragments' required entries.
UnionInstalled(result, frags) ==
    (IF Has(result, "required") THEN Elements(result.required) ELSE {}) = UnionRequired(frags)
\* facet is as it was in the node.
Kept(result, node, facet) ==
    /\ Has(result, facet) <=> Has(node, facet)
    /\ Has(node, facet) => result[facet] = node[facet]

\* C5, as stated: the result holds the fold as properties and the union as
\* required, and no allOf.
C5_FoldInstalled ==
    (PolyReturnedOrRaised /\ HasFragments /\ \A i \in 1..Len(lastCall.node.allOf) : Resolvable(lastCall.node.allOf[i]))
    => /\ outcome.kind = "returned"
       /\ FoldInstalled(outcome.value, FragmentsOf(lastCall.node))
       /\ UnionInstalled(outcome.value, FragmentsOf(lastCall.node))
       /\ ~Has(outcome.value, "allOf")

\* C5, as amended: the fold and the union are installed when not empty, the
\* node keeps its own properties and required otherwise, allOf is removed
\* and every other facet is kept.
C5_FoldInstalledWhenNonEmpty ==
    (PolyReturnedOrRaised /\ \A i \in 1..Len(lastCall.node.allOf) : Resolvable(lastCall.node.allOf[i]))
    => LET node == lastCall.node
           frags == FragmentsOf(node)
       IN /\ outcome.kind = "returned"
          /\ IF FoldedNames(frags) # {}
             THEN FoldInstalled(outcome.value, frags)
             ELSE Kept(outcome.value, node, "properties")
          /\ IF UnionRequired(frags) # {}
             THEN /\ UnionInstalled(outcome.value, frags)
                  /\ Cardinality(UnionRequired(frags)) = Len(outcome.value.required)
             ELSE Kept(outcome.value, node, "required")
          /\ ~Has(outcome.value, "allOf")
          /\ \A facet \in DOMAIN node \ {"properties", "required", "allOf"} :
                Kept(outcome.value, node, facet)

\* A node with two fragments that both declare the field name was merged.
C5_Witness ==
    /\ PolyReturnedOrRaised
    /\ outcome.kind = "returned"
    /\ lastCall.node.allOf = <<PetFragment, RefTo("Animal")>>
    /\ outcome.value.properties["name"] = String
    /\ Has(lastCall.node, "required")

(***************************************************************************)
(* C6: a definition excluded through extension metadata (its own           *)
(* exclude-schema, or the global flag) has no entry in the returned        *)
(* schemas and models, and every definition that is not excluded and       *)
(* refers to it has a schema that embeds the excluded definition's fields. *)
(***************************************************************************)
\* The block a definition ends with: the entry of extraDefinitions, its
\* default, or the block of the document.
DeclaredBlock(doc, extra, k) ==
    IF extra # Undefined /\ Has(extra, k) THEN extra[k]
    ELSE IF extra # Undefined /\ Has(extra, "default") THEN extra["default"]
    ELSE At(definitionsOf(doc)[k], DeclaredKey(doc))
OwnExcluded(doc, extra, k) ==
    /\ Has(DeclaredBlock(doc, extra, k), "exclude-schema")
    /\ DeclaredBlock(doc, extra, k)["exclude-schema"]
GlobalExcluded(doc) ==
    /\ Has(At(doc, DeclaredKey(doc)), "exclude-schema")
    /\ At(doc, DeclaredKey(doc))["exclude-schema"]
Excluded(doc, extra, k) == OwnExcluded(doc, extra, k) \/ GlobalExcluded(doc)

\* C6: an excluded definition has no schema and no model; a definition that
\* is not excluded and refers to an excluded one has both, and embeds the
\* fields of the excluded one.
C6_ExcludedButEmbedded ==
    CompileReturned =>
        LET defs == definitionsOf(LastDoc) IN
        \A k \in DOMAIN defs :
            IF Excluded(LastDoc, lastCall.extra, k)
            THEN k \notin DOMAIN Schemas /\ k \notin DOMAIN Models
            ELSE \A E \in DOMAIN defs \ {k} :
                   \A f \in RefFields(defs[k], E, DeclaredKey(LastDoc)) :
                    Excluded(LastDoc, lastCall.extra, E) =>
                        /\ k \in DOMAIN Schemas /\ k \in DOMAIN Models
                        /\ Has(Schemas[k].obj, f)
                        /\ DOMAIN Unwrapped(Schemas[k].obj[f])
                              = DOMAIN PropertiesOf(defs[E]) \ Reserved

(***************************************************************************)
(* C7: with a default entry of extraDefinitions that holds schema-options  *)
(* O, the options of every emitted schema include every key of O, with     *)
(* O's value unless the definition's own entry sets that key.              *)
(***************************************************************************)
SchemaOptionsOf(block) == At(block, "schema-options")

\* C7: the options of every returned schema hold every key of the default's
\* schema-options, with its value unless the own entry sets the key.
C7_DefaultOptionsEverywhere ==
    (CompileReturned /\ lastCall.extra # Undefined /\ Has(lastCall.extra, "default")) =>
        LET O == SchemaOptionsOf(lastCall.extra["default"]) IN
        \A k \in DOMAIN Schemas : \A o \in DOMAIN O :
            /\ Has(Schemas[k].options, o)
            /\ \/ Schemas[k].options[o] = O[o]
               \/ Has(SchemaOptionsOf(At(lastCall.extra, k)), o)

(***************************************************************************)
(* C8: compileAsync invokes the callback exactly once: with (null, result) *)
(* if and only if compile returned result, with (errorDescriptor, null)    *)
(* if and only if compile raised.                                          *)
(***************************************************************************)
C8_ExactlyOneOutcome ==
    lastCall.fn = "compileAsync" =>
        /\ Len(cbLog) = 1
        /\ IF lastCall.compiled.kind = "returned"
           THEN cbLog[1] = [err |-> Null, result |-> lastCall.compiled.value]
           ELSE cbLog[1] = [err |-> [message |-> lastCall.compiled.error], result |-> Null]

(***************************************************************************)
(* C9: propertyMap maps integer, long, float, double and number with one   *)
(* of these as format to Number, string and password to String, boolean    *)
(* to Boolean, date and dateTime to Date, an array to the one-element      *)
(* array of what its items map to; number with another or no format fails  *)
(* with the unrecognised-format error and every other descriptor with the  *)
(* unrecognized-type error.  As amended: over the descriptors whose        *)
(* arrays all carry items.                                                 *)
(***************************************************************************)
TypeOf(d) == IF Has(d, "type") THEN d.type ELSE "<none>"
IsArrayDescriptor(d) == TypeOf(d) = "array"
RECURSIVE ArraysCarryItems(_)
ArraysCarryItems(d) ==
    IsArrayDescriptor(d) => (Has(d, "items") /\ ArraysCarryItems(d.items))

\* The table of the claim.
RECURSIVE StorageType(_)
StorageType(d) ==
    IF TypeOf(d) \in {"integer", "long", "float", "double"} THEN Returned(Ctor("Number"))
    ELSE IF TypeOf(d) = "number"
    THEN IF Has(d, "format") /\ d.format \in {"integer", "long", "float", "double"}
         THEN Returned(Ctor("Number"))
         ELSE Thrown("Unrecognised schema format")
    ELSE IF TypeOf(d) \in {"string", "password"} THEN Returned(Ctor("String"))
    ELSE IF TypeOf(d) = "boolean" THEN Returned(Ctor("Boolean"))
    ELSE IF TypeOf(d) \in {"date", "dateTime"} THEN Returned(Ctor("Date"))
    ELSE IF IsArrayDescriptor(d) /\ Has(d, "items")
    THEN IF StorageType(d.items).kind = "returned"
         THEN Returned(Arr(StorageType(d.items).value))
         ELSE StorageType(d.items)
    ELSE Thrown("Unrecognized schema type")

PropertyMapCalled == lastCall.fn = "propertyMap" /\ calls > 0

\* C9, as stated: propertyMap returns or fails by the table, for every descriptor.
C9_PropertyMapTotal ==
    PropertyMapCalled => outcome = StorageType(lastCall.property)

\* C9, as amended: propertyMap returns or fails by the table, for every
\* descriptor whose arrays all carry items.
C9_PropertyMapTotalWithItems ==
    (PropertyMapCalled /\ ArraysCarryItems(lastCall.property))
        => outcome = StorageType(lastCall.property)

\* An array of arrays of a number with a format was mapped.
C9_Witness ==
    /\ PropertyMapCalled
    /\ lastCall.property = [type |-> "array",
                            items |-> [type |-> "array",
                                       items |-> [type |-> "number", format |-> "float"]]]
    /\ outcome = Returned(Arr(Arr(Ctor("Number"))))

(***************************************************************************)
(* C10: when getSchema compiles a definition that declares allOf, the      *)
(* merge happens before properties and required are read: in that same     *)
(* compilation every merged field is compiled and every field of the       *)
(* merged required set is emitted with required: true.                     *)
(***************************************************************************)
Merged(def, registry) == processPolymorphic(def, registry).val
RequiredOf(def) == IF Has(def, "required") THEN Elements(def.required) ELSE {}

\* C10: the schema of a definition that declares allOf has every merged field,
\* and required: true on every field of the merged required set.
C10_MergeBeforeRead ==
    (CompileReturned /\ lastCall.extra = Undefined) =>
        LET defs == definitionsOf(LastDoc) IN
        \A k \in DOMAIN defs \cap DOMAIN Schemas :
            isPolymorphic(defs[k]) =>
                \A f \in DOMAIN PropertiesOf(Merged(defs[k], defs)) \ Reserved :
                    /\ Has(Schemas[k].obj, f)
                    /\ f \in RequiredOf(Merged(defs[k], defs)) =>
                          /\ Has(Schemas[k].obj[f], "required")
                          /\ Schemas[k].obj[f].required = TRUE

=============================================================================
